---- MODULE Spec2Model ----
(***************************************************************************)
(* State-machine model of backend/server.py (Namaz Vakitleri API):        *)
(* the settings endpoints POST /settings and GET /settings/{device_id}    *)
(* over the user_settings collection, the query endpoints /prayer-times,   *)
(* /prayer-times/monthly and /qibla, and the static endpoints              *)
(* /cities/turkey, /cities/world and /calculation-methods.                 *)
(*                                                                         *)
(* Encoding of Python values.  An Optional value is a tuple: None is <<>>  *)
(* and a present value v is <<v>>.  A dict is a function from key strings  *)
(* to values.  Times are ticks of the utcnow clock, uuid4 values and       *)
(* ObjectIds are numbered in the order they are drawn.  Coordinates are    *)
(* in ten-thousandths of a degree, directions in hundredths.               *)
(***************************************************************************)
EXTENDS Integers, Sequences, FiniteSets, TLC

VARIABLES
    store,      \* db.user_settings: the documents in natural (insertion) order
    now,        \* the value datetime.utcnow() returns
    uuids,      \* how many uuid4 values have been drawn
    pc,         \* per request: where its handler stands
    kind,       \* per request: the endpoint it called
    args,       \* per request: its query parameters and body
    local,      \* per request: the handler's local variables
    resp,       \* per request: the HTTP response, None until sent
    calls,      \* per request: upstream (Aladhan) calls issued
    received    \* how many requests have arrived

vars == <<store, now, uuids, pc, kind, args, local, resp, calls, received>>

\* ------------------------------------------------------------------ bounds

MaxReq == 3        \* requests per run
MaxClock == 1      \* last tick of the clock

\* The requests in flight at a time; a slot is free again once its response
\* is sent.
Requests == {"r1", "r2"}
DeviceIds == {"dev-a", "dev-b"}

\* ------------------------------------------------------------ Python values

None == <<>>
Some(v) == <<v>>

\* dict.pop(key, None) as get_settings uses it: the dict without the key.
Pop(d, key) == [k \in DOMAIN d \ {key} |-> d[k]]

\* ------------------------------------------------------------------ models

PatchFields ==
    {"language", "theme", "notification_enabled", "notification_sound",
     "calculation_method", "latitude", "longitude", "city", "country"}

\* Mutant of FieldDefault: notifications are off unless asked for.
FieldDefaultNotificationsOff(k) ==
    CASE k = "language" -> Some("tr")
      [] k = "theme" -> Some("dark")
      [] k = "notification_enabled" -> Some(FALSE)
      [] k = "notification_sound" -> Some("default")
      [] k = "calculation_method" -> Some(13)
      [] OTHER -> None

\* UserSettings' field defaults.
FieldDefault(k) ==
    CASE k = "language" -> Some("tr")
      [] k = "theme" -> Some("dark")
      [] k = "notification_enabled" -> Some(TRUE)
      [] k = "notification_sound" -> Some("default")
      [] k = "calculation_method" -> Some(13)
      [] OTHER -> None

\* UserSettingsUpdate(): every field None.
UserSettingsUpdate == [k \in PatchFields |-> None]

\* The request bodies the model sends: one carrying Python's falsy values
\* (False, 0, "") and a value equal to its default, and one with a location;
\* each leaves some fields None.
Patches ==
    { [UserSettingsUpdate EXCEPT !["notification_enabled"] = Some(FALSE),
                                 !["calculation_method"] = Some(13),
                                 !["latitude"] = Some(0),
                                 !["city"] = Some("")],
      [UserSettingsUpdate EXCEPT !["language"] = Some("en"),
                                 !["calculation_method"] = Some(2),
                                 !["latitude"] = Some(41),
                                 !["longitude"] = Some(29),
                                 !["city"] = Some("Istanbul"),
                                 !["country"] = Some("Turkey")] }

\* Python's falsy value of a field's type.
Falsy(k) ==
    CASE k = "notification_enabled" -> FALSE
      [] k \in {"calculation_method", "latitude", "longitude"} -> 0
      [] OTHER -> ""

\* Mutant of NotNoneItems: "if v" in place of "if v is not None".
TruthyItems(settings) ==
    [k \in {f \in PatchFields : settings[f] # None /\ settings[f] # Some(Falsy(f))}
        |-> settings[k]]

\* Mutant of NotNoneItems: every item of settings.dict(), None or not.
AllItems(settings) == [k \in PatchFields |-> settings[k]]

\* {k: v for k, v in settings.dict().items() if v is not None}
NotNoneItems(settings) ==
    [k \in {f \in PatchFields : settings[f] # None} |-> settings[k]]

\* UserSettings(device_id=device_id, **items).dict(): id from uuid4, the
\* given items, the defaults for the rest, created_at and updated_at each
\* from its own utcnow() call.
UserSettings(uuid, device_id, items, t_created, t_updated) ==
    [k \in PatchFields |-> IF k \in DOMAIN items THEN items[k] ELSE FieldDefault(k)]
    @@ [id |-> uuid, device_id |-> device_id,
        created_at |-> t_created, updated_at |-> t_updated]

\* ----------------------------------------------------------- the collection

Matches(device_id) == {i \in 1..Len(store) : store[i]["device_id"] = device_id}

FirstMatch(device_id) ==
    CHOOSE i \in Matches(device_id) : \A j \in Matches(device_id) : i <= j

\* find_one({"device_id": device_id}): the first matching document, or None.
find_one(device_id) ==
    IF Matches(device_id) = {} THEN None ELSE Some(store[FirstMatch(device_id)])

\* Mutant of DollarSet: "$inc" in place of "$set" for calculation_method.
DollarInc(doc, update_data) ==
    [k \in DOMAIN doc \cup DOMAIN update_data |->
        IF k \notin DOMAIN update_data THEN doc[k]
        ELSE IF k = "calculation_method" /\ k \in DOMAIN doc
             THEN Some(doc[k][1] + update_data[k][1])
             ELSE update_data[k]]

\* {"$set": update_data} applied to one document.
DollarSet(doc, update_data) ==
    [k \in DOMAIN doc \cup DOMAIN update_data |->
        IF k \in DOMAIN update_data THEN update_data[k] ELSE doc[k]]

\* update_one({"device_id": device_id}, {"$set": update_data}): the first
\* matching document is updated, none when nothing matches.
update_one(device_id, update_data) ==
    IF Matches(device_id) = {} THEN store
    ELSE [store EXCEPT ![FirstMatch(device_id)] = DollarSet(@, update_data)]

\* insert_one(document): the driver adds a fresh _id and appends.
insert_one(document) ==
    Append(store, ("_id" :> Len(store) + 1) @@ document)

\* ---------------------------------------------------------------- responses

\* A handler's locals before it has assigned any; e is the exception its
\* except clause caught.
NoLocals ==
    [existing |-> None, update_data |-> None, new_settings |-> None, e |-> None]

\* return {"success": True, "data": data}: the dict a handler returns.
Success(data) == [status |-> 200, success |-> Some(TRUE), data |-> data, detail |-> None]

\* raise HTTPException(status_code=code, detail=detail); detail is the tuple
\* of the parts the f-string joins.
HTTPException(code, detail) ==
    [status |-> code, success |-> None, data |-> None, detail |-> Some(detail)]

\* ------------------------------------------------------------------- state

Init ==
    /\ store = <<>>
    /\ now = 0
    /\ uuids = 0
    /\ pc = [r \in Requests |-> "idle"]
    /\ kind = [r \in Requests |-> "none"]
    /\ args = [r \in Requests |-> None]
    /\ local = [r \in Requests |-> NoLocals]
    /\ resp = [r \in Requests |-> None]
    /\ calls = [r \in Requests |-> 0]
    /\ received = 0

\* Device ids are interchangeable: the first one a run sees is called dev-a.
DeviceChoices == IF received = 0 THEN {"dev-a"} ELSE DeviceIds

\* A request arrives and starts its handler with fresh locals; it takes the
\* first free slot.
Arrives(r, k, a) ==
    /\ pc[r] = "idle"
    /\ (r = "r2" => pc["r1"] # "idle")
    /\ received < MaxReq
    /\ received' = received + 1
    /\ kind' = [kind EXCEPT ![r] = k]
    /\ args' = [args EXCEPT ![r] = a]

\* The response has gone to the client: the handler's frame is released.
Reply(r) ==
    /\ pc[r] = "done"
    /\ pc' = [pc EXCEPT ![r] = "idle"]
    /\ kind' = [kind EXCEPT ![r] = "none"]
    /\ args' = [args EXCEPT ![r] = None]
    /\ local' = [local EXCEPT ![r] = NoLocals]
    /\ resp' = [resp EXCEPT ![r] = None]
    /\ calls' = [calls EXCEPT ![r] = 0]
    /\ UNCHANGED <<store, now, uuids, received>>

\* The clock when it is next read: it has not gone back, and has moved on by
\* at most one tick.
ClockReads == {t \in now..(now + 1) : t <= MaxClock}

Respond(r, response) ==
    /\ resp' = [resp EXCEPT ![r] = Some(response)]
    /\ pc' = [pc EXCEPT ![r] = "done"]

\* What a failing store operation raises (str(e)).
StoreErrors == {"ServerSelectionTimeoutError"}

\* ------------------------------------------------------------ POST /settings

\* A client sends POST /settings?device_id=d with body p.
ReceiveUpsert(r) ==
    /\ \E d \in DeviceChoices, p \in Patches :
          Arrives(r, "upsert", [device_id |-> d, settings |-> p])
    /\ pc' = [pc EXCEPT ![r] = "find"]
    /\ UNCHANGED <<store, now, uuids, local, resp, calls>>

\* existing = await db.user_settings.find_one({"device_id": device_id})
UpsertFind(r) ==
    /\ kind[r] = "upsert" /\ pc[r] = "find"
    /\ LET existing == find_one(args[r].device_id) IN
          /\ local' = [local EXCEPT ![r].existing = existing]
          /\ pc' = [pc EXCEPT ![r] = IF existing # None THEN "found" ELSE "absent"]
    /\ UNCHANGED <<store, now, uuids, kind, args, resp, calls, received>>

\* Mutant of UpdateData: the update stamps created_at as well.
UpdateDataStampsCreated(settings, t) ==
    NotNoneItems(settings) @@ [updated_at |-> t, created_at |-> t]

\* update_data = {non-None items}; update_data["updated_at"] = utcnow()
UpdateData(settings, t) ==
    NotNoneItems(settings) @@ [updated_at |-> t]

BuildUpdate(r) ==
    /\ kind[r] = "upsert" /\ pc[r] = "found"
    /\ \E t \in ClockReads :
          /\ now' = t
          /\ local' = [local EXCEPT ![r].update_data = Some(UpdateData(args[r].settings, t))]
    /\ pc' = [pc EXCEPT ![r] = "update"]
    /\ UNCHANGED <<store, uuids, kind, args, resp, calls, received>>

\* await db.user_settings.update_one({"device_id": device_id}, {"$set": update_data})
UpdateOne(r) ==
    /\ kind[r] = "upsert" /\ pc[r] = "update"
    /\ store' = update_one(args[r].device_id, local[r].update_data[1])
    /\ pc' = [pc EXCEPT ![r] = "reread"]
    /\ UNCHANGED <<now, uuids, kind, args, local, resp, calls, received>>

\* updated = await find_one(...); return {"success": True, "data": updated}
\* The returned document is the stored one, "_id" included.
ReRead(r) ==
    /\ kind[r] = "upsert" /\ pc[r] = "reread"
    /\ Respond(r, Success(find_one(args[r].device_id)))
    /\ UNCHANGED <<store, now, uuids, kind, args, local, calls, received>>

\* new_settings = UserSettings(device_id=device_id, **{non-None items})
Construct(r) ==
    /\ kind[r] = "upsert" /\ pc[r] = "absent"
    /\ \E t1 \in ClockReads :
          \E t2 \in {t \in t1..(t1 + 1) : t <= MaxClock} :
             /\ now' = t2
             /\ local' = [local EXCEPT ![r].new_settings =
                   Some(UserSettings(uuids + 1, args[r].device_id,
                                     NotNoneItems(args[r].settings), t1, t2))]
    /\ uuids' = uuids + 1
    /\ pc' = [pc EXCEPT ![r] = "insert"]
    /\ UNCHANGED <<store, kind, args, resp, calls, received>>

\* await insert_one(new_settings.dict()); return {"success": True, "data": new_settings.dict()}
InsertOne(r) ==
    /\ kind[r] = "upsert" /\ pc[r] = "insert"
    /\ store' = insert_one(local[r].new_settings[1])
    /\ Respond(r, Success(local[r].new_settings))
    /\ UNCHANGED <<now, uuids, kind, args, local, calls, received>>

\* Mutant of UpsertStoreFails: the except clause logs the error and answers
\* success with no data.
UpsertStoreFailsSwallowed(r) ==
    /\ kind[r] = "upsert" /\ pc[r] \in {"find", "update", "reread", "insert"}
    /\ \E cause \in StoreErrors :
          /\ local' = [local EXCEPT ![r].e = Some(cause)]
          /\ Respond(r, Success(None))
    /\ UNCHANGED <<store, now, uuids, kind, args, calls, received>>

\* A store operation of the upsert raises (the operation has not taken
\* effect); except Exception as e: raise HTTPException(500, detail=str(e))
UpsertStoreFails(r) ==
    /\ kind[r] = "upsert" /\ pc[r] \in {"find", "update", "reread", "insert"}
    /\ \E cause \in StoreErrors :
          /\ local' = [local EXCEPT ![r].e = Some(cause)]
          /\ Respond(r, HTTPException(500, <<cause>>))
    /\ UNCHANGED <<store, now, uuids, kind, args, calls, received>>

\* ------------------------------------------------- GET /settings/{device_id}

ReceiveGet(r) ==
    /\ \E d \in DeviceChoices : Arrives(r, "get", [device_id |-> d])
    /\ pc' = [pc EXCEPT ![r] = "find"]
    /\ UNCHANGED <<store, now, uuids, local, resp, calls>>

\* Mutant of get_settings_response: a missing document is answered 404.
get_settings_response_404(settings) ==
    IF settings # None THEN Success(Some(Pop(settings[1], "_id")))
    ELSE HTTPException(404, <<"Settings not found">>)

\* settings = await find_one(...); if settings: settings.pop("_id", None);
\* return it; else return {"success": True, "data": None}
get_settings_response(settings) ==
    IF settings # None THEN Success(Some(Pop(settings[1], "_id")))
    ELSE Success(None)

GetFind(r) ==
    /\ kind[r] = "get" /\ pc[r] = "find"
    /\ Respond(r, get_settings_response(find_one(args[r].device_id)))
    /\ UNCHANGED <<store, now, uuids, kind, args, local, calls, received>>

\* find_one raises in get_settings: no handler catches it, the framework
\* answers 500.
GetStoreFails(r) ==
    /\ kind[r] = "get" /\ pc[r] = "find"
    /\ Respond(r, HTTPException(500, <<"Internal Server Error">>))
    /\ UNCHANGED <<store, now, uuids, kind, args, local, calls, received>>

\* ------------------------------------------------------- the query endpoints

\* Kaaba coordinates, in ten-thousandths of a degree.
KAABA_LAT == 214225
KAABA_LNG == 398262

\* Coordinates are in ten-thousandths of a degree.  The latitudes and
\* longitudes the model computes with: the poles, the equator, the Kaaba's
\* parallel and meridian and its antipode's, the meridians one
\* ten-thousandth of a degree either side of the Kaaba's, the date line,
\* and a point beyond each range.
Latitudes == {-900000, -214225, 0, 100000, 214225, 410000, 900000, 910000}
Longitudes ==
    {-1810000, -1800000, -1401738, 0, 290000, 398261, 398262, 398263, 1800000}

\* The query strings the model sends to the three query endpoints: each
\* parameter absent or present, latitude and longitude inside and outside
\* their ranges.
LatitudeArgs == {None, Some(410000), Some(910000)}
LongitudeArgs == {None, Some(290000), Some(-1810000)}
MonthYearArgs == {<<Some(11), Some(2025)>>, <<None, Some(2025)>>, <<Some(11), None>>}

\* qibla = math.degrees(math.atan2(x, y)) with x and y as lines 153-161
\* compute them, in hundred-thousandths of a degree rounded down: the
\* float the source computes at each of the model's coordinates.  It lies in
\* [-180, 180]; math.sin, cos, tan and atan2 raise for no finite float.
qibla(lat, lng) ==
    CASE lat = -900000 /\ lng = -1810000 -> -13917380
      [] lat = -900000 /\ lng = -1800000 -> -14017381
      [] lat = -900000 /\ lng = -1401738 -> 18000000
      [] lat = -900000 /\ lng = 0 -> 3982620
      [] lat = -900000 /\ lng = 290000 -> 1082620
      [] lat = -900000 /\ lng = 398261 -> 10
      [] lat = -900000 /\ lng = 398262 -> 0
      [] lat = -900000 /\ lng = 398263 -> -11
      [] lat = -900000 /\ lng = 1800000 -> -14017380
      [] lat = -214225 /\ lng = -1810000 -> -8225937
      [] lat = -214225 /\ lng = -1800000 -> -8246296
      [] lat = -214225 /\ lng = -1401738 -> 9000000
      [] lat = -214225 /\ lng = 0 -> 4476460
      [] lat = -214225 /\ lng = 290000 -> 1454416
      [] lat = -214225 /\ lng = 398261 -> 13
      [] lat = -214225 /\ lng = 398262 -> 0
      [] lat = -214225 /\ lng = 398263 -> -14
      [] lat = -214225 /\ lng = 1800000 -> -8246296
      [] lat = 0 /\ lng = -1810000 -> -5903053
      [] lat = 0 /\ lng = -1800000 -> -5850821
      [] lat = 0 /\ lng = -1401738 -> 0
      [] lat = 0 /\ lng = 0 -> 5850820
      [] lat = 0 /\ lng = 290000 -> 2558199
      [] lat = 0 /\ lng = 398261 -> 25
      [] lat = 0 /\ lng = 398262 -> 0
      [] lat = 0 /\ lng = 398263 -> -26
      [] lat = 0 /\ lng = 1800000 -> -5850821
      [] lat = 100000 /\ lng = -1810000 -> -5162057
      [] lat = 100000 /\ lng = -1800000 -> -5093991
      [] lat = 100000 /\ lng = -1401738 -> 0
      [] lat = 100000 /\ lng = 0 -> 6844243
      [] lat = 100000 /\ lng = 290000 -> 4103200
      [] lat = 100000 /\ lng = 398261 -> 47
      [] lat = 100000 /\ lng = 398262 -> 0
      [] lat = 100000 /\ lng = 398263 -> -48
      [] lat = 100000 /\ lng = 1800000 -> -5093991
      [] lat = 214225 /\ lng = -1810000 -> -4553725
      [] lat = 214225 /\ lng = -1800000 -> -4476461
      [] lat = 214225 /\ lng = -1401738 -> 0
      [] lat = 214225 /\ lng = 0 -> 8246295
      [] lat = 214225 /\ lng = 290000 -> 8801779
      [] lat = 214225 /\ lng = 398261 -> 8999998
      [] lat = 214225 /\ lng = 398262 -> 0
      [] lat = 214225 /\ lng = 398263 -> -8999999
      [] lat = 214225 /\ lng = 1800000 -> -4476461
      [] lat = 410000 /\ lng = -1810000 -> -3951901
      [] lat = 410000 /\ lng = -1800000 -> -3868145
      [] lat = 410000 /\ lng = -1401738 -> 0
      [] lat = 410000 /\ lng = 0 -> 10797082
      [] lat = 410000 /\ lng = 290000 -> 15166112
      [] lat = 410000 /\ lng = 398261 -> 17999972
      [] lat = 410000 /\ lng = 398262 -> 18000000
      [] lat = 410000 /\ lng = 398263 -> -17999973
      [] lat = 410000 /\ lng = 1800000 -> -3868145
      [] lat = 900000 /\ lng = -1810000 -> -4082621
      [] lat = 900000 /\ lng = -1800000 -> -3982621
      [] lat = 900000 /\ lng = -1401738 -> 0
      [] lat = 900000 /\ lng = 0 -> 14017379
      [] lat = 900000 /\ lng = 290000 -> 16917379
      [] lat = 900000 /\ lng = 398261 -> 17999990
      [] lat = 900000 /\ lng = 398262 -> 18000000
      [] lat = 900000 /\ lng = 398263 -> -17999991
      [] lat = 900000 /\ lng = 1800000 -> -3982621
      [] lat = 910000 /\ lng = -1810000 -> -4108839
      [] lat = 910000 /\ lng = -1800000 -> -4008314
      [] lat = 910000 /\ lng = -1401738 -> 0
      [] lat = 910000 /\ lng = 0 -> 14041950
      [] lat = 910000 /\ lng = 290000 -> 16924541
      [] lat = 910000 /\ lng = 398261 -> 17999990
      [] lat = 910000 /\ lng = 398262 -> 18000000
      [] lat = 910000 /\ lng = 398263 -> -17999991
      [] lat = 910000 /\ lng = 1800000 -> -4008314

\* if qibla < 0: qibla += 360
Normalize(q) == IF q < 0 THEN q + 36000000 ELSE q

\* round(qibla, 2): hundred-thousandths to hundredths of a degree, to the
\* nearest, a tie to the even neighbour.
Round2(q) ==
    LET h == q \div 1000
        rem == q % 1000
    IN IF rem > 500 \/ (rem = 500 /\ h % 2 = 1) THEN h + 1 ELSE h

\* calculate_qibla_direction(lat, lng), in hundredths of a degree.
calculate_qibla_direction(lat, lng) == Round2(Normalize(qibla(lat, lng)))

\* The parameters an endpoint declares Query(...): required, no default.
Required(k) ==
    CASE k = "daily" -> {"latitude", "longitude"}
      [] k = "monthly" -> {"latitude", "longitude", "month", "year"}
      [] k = "qibla" -> {"latitude", "longitude"}

\* A client sends GET /prayer-times, /prayer-times/monthly or /qibla.
ReceiveQuery(r) ==
    /\ \E k \in {"daily", "monthly", "qibla"},
          lat \in LatitudeArgs, lng \in LongitudeArgs :
          \E my \in (IF k = "monthly" THEN MonthYearArgs ELSE {<<None, None>>}) :
             Arrives(r, k, [latitude |-> lat, longitude |-> lng,
                            month |-> my[1], year |-> my[2]])
    /\ pc' = [pc EXCEPT ![r] = "validate"]
    /\ UNCHANGED <<store, now, uuids, local, resp, calls>>

\* A client sends GET /qibla with both coordinates, each within its range
\* (latitude in [-90, 90], longitude in [-180, 180]).
ReceiveQibla(r) ==
    /\ \E lat \in {x \in Latitudes : -900000 <= x /\ x <= 900000},
          lng \in {x \in Longitudes : -1800000 <= x /\ x <= 1800000} :
          Arrives(r, "qibla", [latitude |-> Some(lat), longitude |-> Some(lng),
                               month |-> None, year |-> None])
    /\ pc' = [pc EXCEPT ![r] = "validate"]
    /\ UNCHANGED <<store, now, uuids, local, resp, calls>>

\* The framework binds the query parameters: a missing required one is
\* answered 422 and the handler does not run.  Query(...) states no range.
Validate(r) ==
    /\ kind[r] \in {"daily", "monthly", "qibla"} /\ pc[r] = "validate"
    /\ IF \E p \in Required(kind[r]) : args[r][p] = None
       THEN Respond(r, HTTPException(422, <<"field required">>))
       ELSE /\ pc' = [pc EXCEPT ![r] = IF kind[r] = "qibla" THEN "compute" ELSE "call"]
            /\ resp' = resp
    /\ UNCHANGED <<store, now, uuids, kind, args, local, calls, received>>

\* response = await client.get(url, params=params, timeout=30.0)
IssueCall(r) ==
    /\ kind[r] \in {"daily", "monthly"} /\ pc[r] = "call"
    /\ calls' = [calls EXCEPT ![r] = @ + 1]
    /\ pc' = [pc EXCEPT ![r] = "await"]
    /\ UNCHANGED <<store, now, uuids, kind, args, local, resp, received>>

\* How the upstream call can end badly, as str(e): client.get raises (network
\* failure, timeout), raise_for_status raises, or the body lacks a key the
\* handler reads.
UpstreamErrors == {"ConnectTimeout", "HTTPStatusError", "KeyError"}

\* The detail of the handler's HTTPException for exception e.
ErrorDetail(k, e) ==
    IF k = "daily" THEN <<"Failed to fetch prayer times: ", e>> ELSE <<e>>

\* Mutant of UpstreamFails: a failed call is tried again.
UpstreamFailsRetried(r, cause) ==
    /\ local' = [local EXCEPT ![r].e = Some(cause)]
    /\ pc' = [pc EXCEPT ![r] = "call"]
    /\ resp' = resp
    /\ calls' = calls

\* except Exception as e: raise HTTPException(status_code=500, detail=...)
UpstreamFails(r, cause) ==
    /\ local' = [local EXCEPT ![r].e = Some(cause)]
    /\ Respond(r, HTTPException(500, ErrorDetail(kind[r], cause)))
    /\ calls' = calls

\* The upstream call ends: the handler reshapes the body and returns it, or
\* an exception reaches its except clause.
UpstreamReplies(r) ==
    /\ kind[r] \in {"daily", "monthly"} /\ pc[r] = "await"
    /\ \/ /\ Respond(r, Success(Some("timings")))
          /\ UNCHANGED <<local, calls>>
       \/ \E cause \in UpstreamErrors : UpstreamFails(r, cause)
    /\ UNCHANGED <<store, now, uuids, kind, args, received>>

\* Mutant of Compute: the handler counts its calls in the database and
\* turns the direction by the number of stored records.
ComputeReadsStore(r) ==
    /\ kind[r] = "qibla" /\ pc[r] = "compute"
    /\ Respond(r, Success(Some(
          [direction |-> calculate_qibla_direction(args[r].latitude[1], args[r].longitude[1])
                            + Len(store),
           latitude |-> args[r].latitude[1],
           longitude |-> args[r].longitude[1],
           kaaba_latitude |-> KAABA_LAT,
           kaaba_longitude |-> KAABA_LNG])))
    /\ UNCHANGED <<store, now, uuids, kind, args, local, calls, received>>

\* direction = calculate_qibla_direction(latitude, longitude); return it with
\* the coordinates.
Compute(r) ==
    /\ kind[r] = "qibla" /\ pc[r] = "compute"
    /\ Respond(r, Success(Some(
          [direction |-> calculate_qibla_direction(args[r].latitude[1], args[r].longitude[1]),
           latitude |-> args[r].latitude[1],
           longitude |-> args[r].longitude[1],
           kaaba_latitude |-> KAABA_LAT,
           kaaba_longitude |-> KAABA_LNG])))
    /\ UNCHANGED <<store, now, uuids, kind, args, local, calls, received>>

\* ---------------------------------------------------- the static endpoints

\* TURKISH_CITIES; coordinates in ten-thousandths of a degree, names in
\* ASCII letters (I for the dotted capital, s for s-cedilla, and so on).
TURKISH_CITIES ==
    << [name |-> "Istanbul", latitude |-> 410082, longitude |-> 289784],
       [name |-> "Ankara", latitude |-> 399334, longitude |-> 328597],
       [name |-> "Izmir", latitude |-> 384237, longitude |-> 271428],
       [name |-> "Bursa", latitude |-> 401885, longitude |-> 290610],
       [name |-> "Antalya", latitude |-> 368969, longitude |-> 307133],
       [name |-> "Adana", latitude |-> 370000, longitude |-> 353213],
       [name |-> "Konya", latitude |-> 378746, longitude |-> 324932],
       [name |-> "Gaziantep", latitude |-> 370662, longitude |-> 373833],
       [name |-> "Sanliurfa", latitude |-> 371591, longitude |-> 387969],
       [name |-> "Kocaeli", latitude |-> 408533, longitude |-> 298815],
       [name |-> "Mersin", latitude |-> 368121, longitude |-> 346415],
       [name |-> "Diyarbakir", latitude |-> 379144, longitude |-> 402306],
       [name |-> "Hatay", latitude |-> 362028, longitude |-> 361600],
       [name |-> "Manisa", latitude |-> 386191, longitude |-> 274289],
       [name |-> "Kayseri", latitude |-> 387312, longitude |-> 354787],
       [name |-> "Samsun", latitude |-> 412928, longitude |-> 363313],
       [name |-> "Balikesir", latitude |-> 396484, longitude |-> 278826],
       [name |-> "Kahramanmaras", latitude |-> 375858, longitude |-> 369371],
       [name |-> "Van", latitude |-> 384891, longitude |-> 434089],
       [name |-> "Aydin", latitude |-> 378560, longitude |-> 278416],
       [name |-> "Denizli", latitude |-> 377765, longitude |-> 290864],
       [name |-> "Tekirdag", latitude |-> 409781, longitude |-> 275117],
       [name |-> "Sakarya", latitude |-> 406940, longitude |-> 304358],
       [name |-> "Mugla", latitude |-> 372153, longitude |-> 283636],
       [name |-> "Eskisehir", latitude |-> 397767, longitude |-> 305206],
       [name |-> "Mardin", latitude |-> 373212, longitude |-> 407245],
       [name |-> "Trabzon", latitude |-> 410027, longitude |-> 397168],
       [name |-> "Erzurum", latitude |-> 399055, longitude |-> 412658],
       [name |-> "Malatya", latitude |-> 383552, longitude |-> 383095],
       [name |-> "Ordu", latitude |-> 409862, longitude |-> 378797] >>

\* WORLD_CITIES; coordinates in ten-thousandths of a degree.
WORLD_CITIES ==
    << [name |-> "Mecca", country |-> "Saudi Arabia", latitude |-> 214225, longitude |-> 398262],
       [name |-> "Medina", country |-> "Saudi Arabia", latitude |-> 245247, longitude |-> 395692],
       [name |-> "Dubai", country |-> "UAE", latitude |-> 252048, longitude |-> 552708],
       [name |-> "Cairo", country |-> "Egypt", latitude |-> 300444, longitude |-> 312357],
       [name |-> "Jakarta", country |-> "Indonesia", latitude |-> -62088, longitude |-> 1068456],
       [name |-> "Kuala Lumpur", country |-> "Malaysia", latitude |-> 31390, longitude |-> 1016869],
       [name |-> "London", country |-> "UK", latitude |-> 515074, longitude |-> -1278],
       [name |-> "Paris", country |-> "France", latitude |-> 488566, longitude |-> 23522],
       [name |-> "Berlin", country |-> "Germany", latitude |-> 525200, longitude |-> 134050],
       [name |-> "New York", country |-> "USA", latitude |-> 407128, longitude |-> -740060],
       [name |-> "Los Angeles", country |-> "USA", latitude |-> 340522, longitude |-> -1182437],
       [name |-> "Toronto", country |-> "Canada", latitude |-> 436532, longitude |-> -793832],
       [name |-> "Sydney", country |-> "Australia", latitude |-> -338688, longitude |-> 1512093],
       [name |-> "Tokyo", country |-> "Japan", latitude |-> 356762, longitude |-> 1396503],
       [name |-> "Islamabad", country |-> "Pakistan", latitude |-> 336844, longitude |-> 730479],
       [name |-> "Karachi", country |-> "Pakistan", latitude |-> 248607, longitude |-> 670011],
       [name |-> "Dhaka", country |-> "Bangladesh", latitude |-> 238103, longitude |-> 904125],
       [name |-> "Riyadh", country |-> "Saudi Arabia", latitude |-> 247136, longitude |-> 466753],
       [name |-> "Baghdad", country |-> "Iraq", latitude |-> 333152, longitude |-> 443661],
       [name |-> "Tehran", country |-> "Iran", latitude |-> 356892, longitude |-> 513890] >>

\* The list get_calculation_methods builds.
methods ==
    << [id |-> 0, name |-> "Shia Ithna-Ashari", name_tr |-> "Sii Isna Aseri"],
       [id |-> 1, name |-> "University of Islamic Sciences, Karachi", name_tr |-> "Karachi Universitesi"],
       [id |-> 2, name |-> "Islamic Society of North America", name_tr |-> "ISNA"],
       [id |-> 3, name |-> "Muslim World League", name_tr |-> "Musluman Dunya Birligi"],
       [id |-> 4, name |-> "Umm Al-Qura University, Makkah", name_tr |-> "Ummul Kura"],
       [id |-> 5, name |-> "Egyptian General Authority of Survey", name_tr |-> "Misir"],
       [id |-> 7, name |-> "Institute of Geophysics, University of Tehran", name_tr |-> "Tahran"],
       [id |-> 8, name |-> "Gulf Region", name_tr |-> "Korfez Bolgesi"],
       [id |-> 9, name |-> "Kuwait", name_tr |-> "Kuveyt"],
       [id |-> 10, name |-> "Qatar", name_tr |-> "Katar"],
       [id |-> 11, name |-> "Majlis Ugama Islam Singapura", name_tr |-> "Singapur"],
       [id |-> 12, name |-> "Union Organization Islamic de France", name_tr |-> "Fransa"],
       [id |-> 13, name |-> "Diyanet Isleri Baskanligi, Turkey", name_tr |-> "Diyanet Isleri Baskanligi"],
       [id |-> 14, name |-> "Spiritual Administration of Muslims of Russia", name_tr |-> "Rusya"] >>

StaticKinds == {"cities_turkey", "cities_world", "calculation_methods"}

\* A client sends GET /cities/turkey, /cities/world or /calculation-methods.
ReceiveStatic(r) ==
    /\ \E k \in StaticKinds : Arrives(r, k, None)
    /\ pc' = [pc EXCEPT ![r] = "return"]
    /\ UNCHANGED <<store, now, uuids, local, resp, calls>>

\* Mutant of StaticData: each list is served without its last entry.
StaticDataShort(k) ==
    CASE k = "cities_turkey" -> SubSeq(TURKISH_CITIES, 1, Len(TURKISH_CITIES) - 1)
      [] k = "cities_world" -> SubSeq(WORLD_CITIES, 1, Len(WORLD_CITIES) - 1)
      [] k = "calculation_methods" -> SubSeq(methods, 1, Len(methods) - 1)

\* The list each static handler returns.
StaticData(k) ==
    CASE k = "cities_turkey" -> TURKISH_CITIES
      [] k = "cities_world" -> WORLD_CITIES
      [] k = "calculation_methods" -> methods

\* get_turkish_cities, get_world_cities, get_calculation_methods:
\* return {"success": True, "data": <the list>}
StaticReturn(r) ==
    /\ kind[r] \in StaticKinds /\ pc[r] = "return"
    /\ Respond(r, Success(Some(StaticData(kind[r]))))
    /\ UNCHANGED <<store, now, uuids, kind, args, local, calls, received>>

\* ------------------------------------------------------------ specification

Next ==
    \E r \in Requests :
        \/ ReceiveUpsert(r)
        \/ UpsertFind(r)
        \/ BuildUpdate(r)
        \/ UpdateOne(r)
        \/ ReRead(r)
        \/ Construct(r)
        \/ InsertOne(r)
        \/ UpsertStoreFails(r)
        \/ ReceiveGet(r)
        \/ GetFind(r)
        \/ GetStoreFails(r)
        \/ Reply(r)

Spec == Init /\ [][Next]_vars

\* The settings endpoints with the requests served one after another: a
\* handler starts only when no other handler is running.
NoOverlap == Cardinality({r \in Requests : pc[r] \notin {"idle", "done"}}) <= 1

SeqNext ==
    \E r \in Requests :
        \/ ReceiveUpsert(r) /\ NoOverlap'
        \/ UpsertFind(r)
        \/ BuildUpdate(r)
        \/ UpdateOne(r)
        \/ ReRead(r)
        \/ Construct(r)
        \/ InsertOne(r)
        \/ UpsertStoreFails(r)
        \/ ReceiveGet(r) /\ NoOverlap'
        \/ GetFind(r)
        \/ GetStoreFails(r)
        \/ Reply(r)

SeqSpec == Init /\ [][SeqNext]_vars

\* The query endpoints alone.
QueryNext ==
    \E r \in Requests :
        \/ ReceiveQuery(r)
        \/ Validate(r)
        \/ IssueCall(r)
        \/ UpstreamReplies(r)
        \/ Compute(r)
        \/ Reply(r)

QuerySpec == Init /\ [][QueryNext]_vars

\* GET /qibla alone, over the coordinates within range.
QiblaNext ==
    \E r \in Requests :
        \/ ReceiveQibla(r)
        \/ Validate(r)
        \/ Compute(r)
        \/ Reply(r)

QiblaSpec == Init /\ [][QiblaNext]_vars

\* Every endpoint of the service, the handlers interleaved.
ApiNext ==
    \E r \in Requests :
        \/ ReceiveUpsert(r)
        \/ UpsertFind(r)
        \/ BuildUpdate(r)
        \/ UpdateOne(r)
        \/ ReRead(r)
        \/ Construct(r)
        \/ InsertOne(r)
        \/ UpsertStoreFails(r)
        \/ ReceiveGet(r)
        \/ GetFind(r)
        \/ GetStoreFails(r)
        \/ ReceiveQuery(r)
        \/ Validate(r)
        \/ IssueCall(r)
        \/ UpstreamReplies(r)
        \/ Compute(r)
        \/ ReceiveStatic(r)
        \/ StaticReturn(r)
        \/ Reply(r)

ApiSpec == Init /\ [][ApiNext]_vars

\* ------------------------------------------------------------------- claims

UpsertRequests == {r \in Requests : kind[r] = "upsert"}

\* The documents of one device in a collection, in order.
DocsOf(collection, device_id) ==
    SelectSeq(collection, LAMBDA doc : doc["device_id"] = device_id)

\* C1 (as claimed): in every state the collection holds at most one record
\* per device_id, and exactly one for a device whose upsert has been answered
\* with success.
C1_OneRecordPerDevice ==
    \A d \in DeviceIds :
        /\ Cardinality(Matches(d)) <= 1
        /\ (\E r \in UpsertRequests :
               /\ pc[r] = "done" /\ args[r].device_id = d
               /\ resp[r][1].status = 200)
           => Cardinality(Matches(d)) = 1

\* C2 (as claimed): the upsert is one atomic step: while an upsert stands
\* between its lookup and its write or re-read, no step of another request
\* changes the records of its device_id.
C2_UpsertIsAtomic ==
    [][\A r \in UpsertRequests :
          (/\ pc[r] \in {"found", "absent", "update", "insert", "reread"}
           /\ pc'[r] = pc[r])
          => DocsOf(store', args[r].device_id) = DocsOf(store, args[r].device_id)]_vars

\* C3: no step removes a record or changes a record's id, device_id or
\* created_at; a patchable field or updated_at of a record changes only in
\* the update_one step of an upsert for that record's device_id, and a
\* patchable field only when that upsert's patch carries it non-null.
C3_UpdateFrame ==
    [][/\ Len(store') >= Len(store)
       /\ \A i \in 1..Len(store) :
             /\ store'[i]["id"] = store[i]["id"]
             /\ store'[i]["device_id"] = store[i]["device_id"]
             /\ store'[i]["created_at"] = store[i]["created_at"]
             /\ \A k \in PatchFields \cup {"updated_at"} :
                   store'[i][k] # store[i][k] =>
                      \E r \in UpsertRequests :
                         /\ pc[r] = "update" /\ pc'[r] = "reread"
                         /\ args[r].device_id = store[i]["device_id"]
                         /\ k = "updated_at" \/ args[r].settings[k] # None]_vars

\* C3 witness: an upsert has found a record and its update has changed a
\* patched field and updated_at of it, created_at staying.
C3_Witness ==
    \E r \in UpsertRequests :
        /\ pc[r] = "reread" /\ local[r].existing # None
        /\ LET old == local[r].existing[1]
               doc == store[FirstMatch(args[r].device_id)]
           IN /\ \E k \in PatchFields : doc[k] # old[k]
              /\ doc["updated_at"] # old["updated_at"]
              /\ doc["created_at"] = old["created_at"]
              /\ doc["id"] = old["id"]

\* C4: the update_one step of an upsert that found a record sets every
\* patchable field whose patch value is non-null to the patch value and
\* leaves every other patchable field as it was stored.
C4_MergeByField ==
    [][\A r \in UpsertRequests :
          (pc[r] = "update" /\ pc'[r] = "reread") =>
             /\ Matches(args[r].device_id) # {}
             /\ LET i == FirstMatch(args[r].device_id) IN
                   \A k \in PatchFields :
                      store'[i][k] = IF args[r].settings[k] # None
                                     THEN args[r].settings[k]
                                     ELSE store[i][k]]_vars

\* C4 witness: a patch with calculation_method=13 (the default) and
\* notification_enabled=False has overwritten a stored calculation_method
\* of 2, and the language it does not carry has stayed "en".
C4_Witness ==
    \E r \in UpsertRequests :
        /\ pc[r] = "reread" /\ local[r].existing # None
        /\ local[r].existing[1]["calculation_method"] = Some(2)
        /\ args[r].settings["calculation_method"] = Some(13)
        /\ args[r].settings["language"] = None
        /\ LET doc == store[FirstMatch(args[r].device_id)] IN
              /\ doc["calculation_method"] = Some(13)
              /\ doc["notification_enabled"] = Some(FALSE)
              /\ doc["language"] = Some("en")

\* The default table as the claim gives it.
C5_Default(k) ==
    CASE k = "language" -> Some("tr")
      [] k = "theme" -> Some("dark")
      [] k = "notification_enabled" -> Some(TRUE)
      [] k = "notification_sound" -> Some("default")
      [] k = "calculation_method" -> Some(13)
      [] k \in {"latitude", "longitude", "city", "country"} -> None

\* C5: an upsert that found no record builds a record with the input
\* device_id, an id no stored or pending record has, the patch's non-null
\* values and the defaults elsewhere, and created_at and updated_at read
\* from the clock while it is built (created_at <= updated_at); its insert
\* appends exactly that record and the response carries it.
C5_CreatePath ==
    [][\A r \in UpsertRequests :
          /\ (pc[r] = "absent" /\ pc'[r] = "insert") =>
                LET rec == local'[r].new_settings[1] IN
                   /\ rec["device_id"] = args[r].device_id
                   /\ \A i \in 1..Len(store) : store[i]["id"] # rec["id"]
                   /\ \A q \in Requests \ {r} :
                         local[q].new_settings # None =>
                            local[q].new_settings[1]["id"] # rec["id"]
                   /\ \A k \in PatchFields :
                         rec[k] = IF args[r].settings[k] # None
                                  THEN args[r].settings[k]
                                  ELSE C5_Default(k)
                   /\ now <= rec["created_at"]
                   /\ rec["created_at"] <= rec["updated_at"]
                   /\ rec["updated_at"] <= now'
          /\ (pc[r] = "insert" /\ pc'[r] = "done" /\ resp'[r][1].status = 200) =>
                /\ resp'[r][1].data = local[r].new_settings
                /\ Len(store') = Len(store) + 1
                /\ SubSeq(store', 1, Len(store)) = store
                /\ Pop(store'[Len(store')], "_id") = local[r].new_settings[1]]_vars

\* C5 witness: a create has been answered with a record that mixes patch
\* values and defaults and is in the collection.
C5_Witness ==
    \E r \in UpsertRequests :
        /\ pc[r] = "done" /\ local[r].existing = None
        /\ resp[r][1].status = 200
        /\ resp[r][1].data[1]["language"] = Some("tr")
        /\ resp[r][1].data[1]["notification_enabled"] = Some(FALSE)
        /\ resp[r][1].data[1]["country"] = None
        /\ \E i \in 1..Len(store) : Pop(store[i], "_id") = resp[r][1].data[1]

\* C6 (requests served one after another): when an upsert that found a
\* record has been answered with the record its patch produced, and a second
\* upsert with the same device_id and patch has found exactly that record
\* and updated it, the stored record equals the answered one in every field
\* but updated_at.
C6_MergeIdempotent ==
    \A r1, r2 \in UpsertRequests :
        (/\ r1 # r2 /\ args[r1] = args[r2]
         /\ pc[r1] = "done" /\ resp[r1][1].status = 200
         /\ local[r1].existing # None
         /\ pc[r2] = "reread"
         /\ local[r2].existing = resp[r1][1].data)
        => Pop(store[FirstMatch(args[r2].device_id)], "updated_at")
              = Pop(resp[r1][1].data[1], "updated_at")

\* C6 witness: the two applications have happened, the second at a later
\* tick than the first.
C6_Witness ==
    \E r1, r2 \in UpsertRequests :
        /\ r1 # r2 /\ args[r1] = args[r2]
        /\ pc[r1] = "done" /\ resp[r1][1].status = 200
        /\ local[r1].existing # None
        /\ pc[r2] = "reread"
        /\ local[r2].existing = resp[r1][1].data
        /\ store[FirstMatch(args[r2].device_id)]["updated_at"]
              # resp[r1][1].data[1]["updated_at"]

\* C7: the lookup of GET /settings/{device_id} changes no record, and when
\* no record has the device_id and the lookup itself did not raise, the
\* response is success with null data.
C7_GetMissing ==
    [][\A r \in Requests :
          (kind[r] = "get" /\ pc[r] = "find" /\ pc'[r] = "done") =>
             /\ store' = store
             /\ (/\ Matches(args[r].device_id) = {}
                 /\ resp'[r][1] # HTTPException(500, <<"Internal Server Error">>))
                => resp'[r][1] = Success(None)]_vars

\* C7 witness: a GET for a device without a record has been answered success
\* with null data while another device has a record.
C7_Witness ==
    \E r \in Requests :
        /\ kind[r] = "get" /\ pc[r] = "done"
        /\ Matches(args[r].device_id) = {}
        /\ Len(store) > 0
        /\ resp[r][1].status = 200
        /\ resp[r][1].success = Some(TRUE)
        /\ resp[r][1].data = None

QueryRequests == {r \in Requests : kind[r] \in {"daily", "monthly", "qibla"}}

OutOfRange(a) ==
    \/ a.latitude # None /\ (a.latitude[1] < -900000 \/ a.latitude[1] > 900000)
    \/ a.longitude # None /\ (a.longitude[1] < -1800000 \/ a.longitude[1] > 1800000)

\* C8 (as claimed): a query whose latitude or longitude is out of range, or
\* a monthly query without month or year, issues no upstream call and ends
\* in a client error.
C8_InvalidQueryRejected ==
    \A r \in QueryRequests :
        (\/ OutOfRange(args[r])
         \/ kind[r] = "monthly" /\ (args[r].month = None \/ args[r].year = None))
        => /\ calls[r] = 0
           /\ pc[r] = "done" =>
                 (resp[r][1].status >= 400 /\ resp[r][1].status <= 499)

\* C9: an upsert whose store operation raised is answered 500 and not
\* success; an upsert answered success had no store operation raise.
C9_StoreFailureIsServerError ==
    \A r \in UpsertRequests :
        pc[r] = "done" =>
           /\ local[r].e # None =>
                 /\ resp[r][1].status = 500
                 /\ resp[r][1].success # Some(TRUE)
           /\ resp[r][1].status = 200 => local[r].e = None

\* C9 witness: an upsert found its record, then a later store operation of
\* it raised, and it has been answered 500.
C9_Witness ==
    \E r \in UpsertRequests :
        /\ pc[r] = "done" /\ local[r].e # None
        /\ local[r].update_data # None
        /\ resp[r][1].status = 500

TimingRequests == {r \in Requests : kind[r] \in {"daily", "monthly"}}

\* C10: a daily or monthly request never issues a second upstream call; it
\* has issued exactly one once it waits for or has answered from the
\* upstream; and once the call has failed the request is over, answered 500
\* with the cause as the last part of the detail.
C10_OneUpstreamCall ==
    \A r \in TimingRequests :
        /\ calls[r] <= 1
        /\ pc[r] = "await" => calls[r] = 1
        /\ (pc[r] = "done" /\ resp[r][1].status # 422) => calls[r] = 1
        /\ local[r].e # None =>
              /\ pc[r] = "done" /\ calls[r] = 1
              /\ resp[r][1].status = 500
              /\ resp[r][1].detail[1][Len(resp[r][1].detail[1])] = local[r].e[1]

\* C10 witness: a daily request's upstream call timed out and it has been
\* answered 500 after one call.
C10_Witness ==
    \E r \in TimingRequests :
        /\ kind[r] = "daily" /\ pc[r] = "done"
        /\ local[r].e = Some("ConnectTimeout")
        /\ calls[r] = 1
        /\ resp[r][1].status = 500

\* C11 (as claimed): GET /qibla with latitude in [-90, 90] and longitude in
\* [-180, 180] is always answered with success, and the direction it returns
\* is at least 0.00 and below 360.00.
C11_BearingInHalfOpenRange ==
    \A r \in Requests :
        (kind[r] = "qibla" /\ pc[r] = "done" /\ ~OutOfRange(args[r])) =>
           /\ resp[r][1].status = 200
           /\ resp[r][1].data[1].direction >= 0
           /\ resp[r][1].data[1].direction < 36000

QiblaRequests(k, p) == {r \in Requests : k[r] = "qibla" /\ p[r] = "done"}

\* C12: no step of a GET /qibla request (arrival, parameter binding,
\* computation, reply) changes the settings store, the clock or the uuid
\* count or issues an upstream call, and whenever two /qibla requests with
\* the same latitude and longitude have both been answered, their answers
\* are equal, whatever other requests ran before or between them.
C12_QiblaPure ==
    [][/\ \A r \in Requests :
             ((kind[r] = "qibla" \/ kind'[r] = "qibla") /\ pc'[r] # pc[r]) =>
                /\ store' = store /\ now' = now /\ uuids' = uuids
                /\ calls' = calls /\ calls[r] = 0
       /\ \A r1, r2 \in QiblaRequests(kind', pc') :
             (/\ args'[r1].latitude = args'[r2].latitude
              /\ args'[r1].longitude = args'[r2].longitude)
             => resp'[r1] = resp'[r2]]_vars

\* C12 witness: two /qibla requests with the same coordinates have both
\* been answered with a direction after upserts have changed the store and
\* moved the clock.
C12_Witness ==
    \E r1, r2 \in QiblaRequests(kind, pc) :
        /\ r1 # r2
        /\ args[r1].latitude = args[r2].latitude
        /\ args[r1].longitude = args[r2].longitude
        /\ resp[r1][1].status = 200 /\ resp[r2][1].status = 200
        /\ resp[r1][1].data[1].direction = 15166
        /\ Len(store) > 0
        /\ now > 0

StaticRequests == {r \in Requests : kind[r] \in StaticKinds /\ pc[r] = "done"}

\* C14: every answer of a static endpoint is success with a list:
\* /cities/turkey 30 entries, each with exactly name, latitude, longitude;
\* /cities/world 20 entries, each with exactly name, country, latitude,
\* longitude; /calculation-methods 14 entries, each with exactly id, name,
\* name_tr, one of them with id 13; and two answers of the same endpoint
\* are equal whatever requests ran before them.
C14_StaticLists ==
    /\ \A r \in StaticRequests :
          /\ resp[r][1].status = 200 /\ resp[r][1].success = Some(TRUE)
          /\ LET data == resp[r][1].data[1] IN
                CASE kind[r] = "cities_turkey" ->
                       /\ Len(data) = 30
                       /\ \A i \in 1..Len(data) :
                             DOMAIN data[i] = {"name", "latitude", "longitude"}
                  [] kind[r] = "cities_world" ->
                       /\ Len(data) = 20
                       /\ \A i \in 1..Len(data) :
                             DOMAIN data[i] = {"name", "country", "latitude", "longitude"}
                  [] kind[r] = "calculation_methods" ->
                       /\ Len(data) = 14
                       /\ \A i \in 1..Len(data) :
                             DOMAIN data[i] = {"id", "name", "name_tr"}
                       /\ \E i \in 1..Len(data) : data[i].id = 13
    /\ \A r1, r2 \in StaticRequests : kind[r1] = kind[r2] => resp[r1] = resp[r2]

\* C14 witness: /calculation-methods has been answered twice, after an
\* upsert has stored a record.
C14_Witness ==
    \E r1, r2 \in StaticRequests :
        /\ r1 # r2
        /\ kind[r1] = "calculation_methods" /\ kind[r2] = "calculation_methods"
        /\ resp[r1][1].status = 200
        /\ Len(store) > 0

\* C13: no step removes a record or turns a non-null patchable field of a
\* stored record (language, theme, the notification fields,
\* calculation_method, latitude, longitude, city, country) into null.
C13_NeverCleared ==
    [][\A i \in 1..Len(store) :
          /\ i <= Len(store')
          /\ \A k \in PatchFields :
                store[i][k] # None => store'[i][k] # None]_vars

\* C13 witness: an upsert whose patch carries null for longitude has
\* updated a record whose longitude was set, and it is still set.
C13_Witness ==
    \E r \in UpsertRequests :
        /\ pc[r] = "reread" /\ local[r].existing # None
        /\ args[r].settings["longitude"] = None
        /\ args[r].settings["country"] = None
        /\ local[r].existing[1]["longitude"] = Some(29)
        /\ LET doc == store[FirstMatch(args[r].device_id)] IN
              /\ doc["longitude"] = Some(29)
              /\ doc["country"] = Some("Turkey")
              /\ doc["latitude"] = Some(0)

\* C15 (as claimed): after every step each stored record's updated_at is
\* not earlier than its created_at, and not earlier than it was before the
\* step.
C15_UpdatedAtMonotone ==
    [][\A i \in 1..Len(store') :
          /\ store'[i]["updated_at"] >= store'[i]["created_at"]
          /\ i <= Len(store) => store'[i]["updated_at"] >= store[i]["updated_at"]]_vars

\* C16 (as claimed): when GET /settings/{device_id} is answered with a
\* record while an upsert for the same device_id stands answered with
\* success and the stored record is still the one that upsert wrote or
\* read back, the two answers carry the same record: the same fields with
\* the same values.
C16_UpsertAnswerIsGetAnswer ==
    [][\A u \in UpsertRequests : \A g \in Requests :
          (/\ kind[g] = "get" /\ pc[g] = "find" /\ pc'[g] = "done"
           /\ resp'[g][1].status = 200
           /\ args[g].device_id = args[u].device_id
           /\ pc[u] = "done" /\ resp[u][1].status = 200
           /\ resp[u][1].data # None
           /\ Pop(store[FirstMatch(args[u].device_id)], "_id")
                 = Pop(resp[u][1].data[1], "_id"))
          => resp'[g][1].data = resp[u][1].data]_vars

====
